---- MODULE Spec2Model ----
(***************************************************************************)
(* Model of tools/s2_author_to_publications_json.py: the exporter that     *)
(* lists an author's papers from Semantic Scholar, normalizes them, flags  *)
(* the selected DOIs, sorts and writes data/publications.json.             *)
(*                                                                         *)
(* Python values are tagged records [t |-> tag, v |-> payload]; a Python   *)
(* str is a sequence of one-character strings, so that strip, replace,     *)
(* lower, startswith and slicing are computed character by character.      *)
(***************************************************************************)
EXTENDS Integers, Sequences, FiniteSets, TLC

VARIABLES
    pc,         \* position of main(): "start", "call1", "iter1", "call2", "iter2",
                \* "fetched", "sorted", "written", "aborted" ("off" under SpecNorm)
    limit,      \* args.limit
    listing,    \* the author's papers the provider has produced so far, in listing
                \* order, as indexes into Corpus; a later request replays them
    limitIsTotal, \* provider reads limit= as a cap on the total (TRUE) or as page size
    selFile,    \* index into SelFiles: the file at args.selected_dois
    selected,   \* the set load_selected_dois returned
    items,      \* main's items list
    pos,        \* records the current request's iterator has produced
    requests,   \* get_author_papers calls issued so far
    delivered,  \* listing positions iter_author_papers yielded to main, in order
    failures,   \* exceptions the provider raised: <<[req, exc]>>
    exc,        \* the exception that left main(): [type, origin], or NoExc
    outFile,    \* the file at args.out: [touched, doc]
    npc, nx, ny, nz  \* SpecNorm: norm_doi applied to nx once (ny) and twice (nz)

vars == <<pc, limit, listing, limitIsTotal, selFile, selected, items, pos,
          requests, delivered, failures, exc, outFile, npc, nx, ny, nz>>

mainVars == <<pc, limit, listing, limitIsTotal, selFile, selected, items, pos,
              requests, delivered, failures, exc, outFile>>
normVars == <<npc, nx, ny, nz>>

----------------------------------------------------------------------------
(* Bounds *)
MaxRecords == 3   \* longest author listing
MaxLimit == 2     \* largest --limit
MaxFrags == 3     \* fragments concatenated into a norm_doi input

----------------------------------------------------------------------------
(* Python str operations on sequences of characters *)

Whitespace == {" ", "\t"}

UpperChars == <<"A","B","C","D","E","F","G","H","I","J","K","L","M",
                "N","O","P","Q","R","S","T","U","V","W","X","Y","Z">>
LowerChars == <<"a","b","c","d","e","f","g","h","i","j","k","l","m",
                "n","o","p","q","r","s","t","u","v","w","x","y","z">>
DigitChars == <<"0","1","2","3","4","5","6","7","8","9">>

\* code point order of the characters the model uses
CharOrder == <<"\t", " ", "#", ",", "-", ".", "/">> \o DigitChars \o <<":">>
             \o UpperChars \o LowerChars

Ord(ch) == CHOOSE i \in 1..Len(CharOrder) : CharOrder[i] = ch

IndexIn(seq, x) == CHOOSE i \in 1..Len(seq) : seq[i] = x

LowerChar(ch) ==
    IF \E i \in 1..Len(UpperChars) : UpperChars[i] = ch
    THEN LowerChars[IndexIn(UpperChars, ch)]
    ELSE ch

\* str.lower()
Lower(s) == [i \in 1..Len(s) |-> LowerChar(s[i])]

RECURSIVE LStrip(_)
LStrip(s) == IF s # <<>> /\ Head(s) \in Whitespace THEN LStrip(Tail(s)) ELSE s

RECURSIVE RStrip(_)
RStrip(s) ==
    IF s # <<>> /\ s[Len(s)] \in Whitespace
    THEN RStrip(SubSeq(s, 1, Len(s) - 1))
    ELSE s

\* str.strip()
Strip(s) == RStrip(LStrip(s))

\* str.startswith(p)
StartsWith(s, p) == Len(s) >= Len(p) /\ SubSeq(s, 1, Len(p)) = p

\* str.replace(old, ""): every non-overlapping occurrence, scanning left to right
RECURSIVE RemoveAll(_, _)
RemoveAll(s, old) ==
    IF Len(s) < Len(old) THEN s
    ELSE IF StartsWith(s, old)
         THEN RemoveAll(SubSeq(s, Len(old) + 1, Len(s)), old)
         ELSE <<Head(s)>> \o RemoveAll(Tail(s), old)

\* s[n:]
DropFirst(s, n) == SubSeq(s, n + 1, Len(s))

HttpsPrefix == <<"h","t","t","p","s",":","/","/","d","o","i",".","o","r","g","/">>
HttpPrefix == <<"h","t","t","p",":","/","/","d","o","i",".","o","r","g","/">>
DoiScheme == <<"d","o","i",":">>

\* norm_doi on a str argument
norm_doi(s) ==
    IF s = <<>> THEN <<>>
    ELSE LET s1 == Strip(s)
             s2 == RemoveAll(RemoveAll(s1, HttpsPrefix), HttpPrefix)
         IN IF StartsWith(Lower(s2), DoiScheme)
            THEN Strip(DropFirst(s2, Len(DoiScheme)))
            ELSE s2

----------------------------------------------------------------------------
(* Inputs of norm_doi under SpecNorm: concatenations of at most MaxFrags    *)
(* fragments.                                                              *)

Fragments == <<
    HttpsPrefix,
    HttpPrefix,
    DoiScheme,
    <<"D","O","I",":">>,
    <<" ">>,
    <<"1","0",".","1","/","x">>,
    <<"1","0",".","1","/","X">>,
    <<"h">>,
    <<"t","t","p","s",":","/","/","d","o","i",".","o","r","g","/">> >>

RECURSIVE Concat(_)
Concat(fs) == IF fs = <<>> THEN <<>> ELSE Fragments[Head(fs)] \o Concat(Tail(fs))

FragSeqs == UNION {[1..n -> 1..Len(Fragments)] : n \in 0..MaxFrags}

NormInputs == {Concat(fs) : fs \in FragSeqs}

----------------------------------------------------------------------------
(* Python values *)

V(t, v) == [t |-> t, v |-> v]
Absent == V("absent", <<>>)     \* key or attribute not present
PyNone == V("none", <<>>)
PyStr(s) == V("str", s)
PyInt(n) == V("int", n)
PyList(l) == V("list", l)
PyDict(d) == V("dict", d)
PyObj(d) == V("obj", d)
EmptyStr == PyStr(<<>>)

\* bool(x)
Truthy(x) ==
    CASE x.t = "str" -> x.v # <<>>
      [] x.t = "int" -> x.v # 0
      [] x.t = "list" -> x.v # <<>>
      [] x.t = "dict" -> \E k \in DOMAIN x.v : x.v[k].t # "absent"
      [] x.t = "obj" -> TRUE
      [] OTHER -> FALSE

\* a or b
Or(a, b) == IF Truthy(a) THEN a ELSE b

NoFields ==
    [title |-> Absent, year |-> Absent, authors |-> Absent, venue |-> Absent,
     publicationTypes |-> Absent, publicationDate |-> Absent,
     citationCount |-> Absent, externalIds |-> Absent, external_ids |-> Absent,
     url |-> Absent, paperId |-> Absent, paper_id |-> Absent]

\* a raw record: None, a mapping or an attribute-bearing object
NullRecord == [shape |-> "none", f |-> NoFields]
DictRecord(f) == [shape |-> "dict", f |-> f]
ObjRecord(f) == [shape |-> "obj", f |-> f]

\* bool(p) of a raw record: None and the empty mapping are false
TruthyRecord(p) ==
    CASE p.shape = "none" -> FALSE
      [] p.shape = "dict" -> \E k \in DOMAIN p.f : p.f[k].t # "absent"
      [] OTHER -> TRUE

safe_get(p, key, default) ==
    IF p.shape = "none" THEN default
    ELSE IF p.f[key].t = "absent" THEN default ELSE p.f[key]

NoIds == PyDict([DOI |-> Absent])     \* {}

external_ids(p) ==
    LET ext == safe_get(p, "externalIds", PyNone)
        ext2 == safe_get(p, "external_ids", PyNone)
    IN IF ext.t = "dict" THEN ext
       ELSE IF ext2.t = "dict" THEN ext2 ELSE NoIds

\* d.get(key) of a mapping value
DictGet(d, key) == IF d.v[key].t = "absent" THEN PyNone ELSE d.v[key]

\* ext.get("DOI") or ""
DoiArg(p) == Or(DictGet(external_ids(p), "DOI"), EmptyStr)

\* the exception x.strip() or x.lower() raises on a value that is no str
StrMethodExc(x) == IF x.t = "str" THEN "none" ELSE "AttributeError"

\* the elements a for loop over the value visits: a str yields its characters
Elements(x) ==
    CASE x.t = "list" -> x.v
      [] x.t = "str" -> [i \in 1..Len(x.v) |-> PyStr(<<x.v[i]>>)]
      [] OTHER -> <<>>

Iterable(x) == x.t \in {"list", "str"}

\* the value authors_to_str calls .strip() on for author entity a
NameOf(a) ==
    CASE a.t \in {"dict", "obj"} ->
            Or(IF a.v.name.t = "absent" THEN PyNone ELSE a.v.name, EmptyStr)
      [] a.t = "str" -> a
      [] OTHER -> EmptyStr          \* getattr(a, "name", "") or ""

RECURSIVE Join(_, _)
Join(names, sep) ==
    IF names = <<>> THEN <<>>
    ELSE IF Len(names) = 1 THEN names[1]
    ELSE names[1] \o sep \o Join(Tail(names), sep)

RECURSIVE AuthorNames(_)
AuthorNames(ents) ==
    IF ents = <<>> THEN <<>>
    ELSE LET a == Head(ents)
             n == IF a.t = "none" THEN <<>> ELSE Strip(NameOf(a).v)
         IN IF n # <<>> THEN <<n>> \o AuthorNames(Tail(ents))
            ELSE AuthorNames(Tail(ents))

\* the exception authors_to_str(authors) raises, "none" if it returns
AuthorsExc(authors) ==
    IF ~Truthy(authors) THEN "none"
    ELSE IF ~Iterable(authors) THEN "TypeError"
    ELSE IF \E i \in 1..Len(Elements(authors)) :
                LET a == Elements(authors)[i]
                IN a.t # "none" /\ StrMethodExc(NameOf(a)) # "none"
         THEN "AttributeError"
         ELSE "none"

authors_to_str(authors) ==
    IF ~Truthy(authors) THEN <<>>
    ELSE Join(AuthorNames(Elements(authors)), <<",", " ">>)

RECURSIVE IntToStr(_)
IntToStr(n) ==
    IF n < 10 THEN <<DigitChars[n + 1]>>
    ELSE IntToStr(n \div 10) \o <<DigitChars[(n % 10) + 1]>>

\* f"{x}" of a str or a non-negative int
Format(x) == IF x.t = "int" THEN IntToStr(x.v) ELSE x.v

PaperUrlBase ==
    <<"h","t","t","p","s",":","/","/","w","w","w",".","s","e","m","a","n","t",
      "i","c","s","c","h","o","l","a","r",".","o","r","g","/","p","a","p","e",
      "r","/">>

PaperId(p) ==
    Or(Or(safe_get(p, "paperId", EmptyStr), safe_get(p, "paper_id", EmptyStr)),
       EmptyStr)

Url(p) ==
    Or(safe_get(p, "url", EmptyStr),
       IF Truthy(PaperId(p)) THEN PyStr(PaperUrlBase \o Format(PaperId(p)))
       ELSE EmptyStr)

AuthorsArg(p) == Or(safe_get(p, "authors", PyNone), PyList(<<>>))

\* the exception the loop body raises on record p, "none" if it appends an item
NormalizeExc(p) ==
    IF Truthy(DoiArg(p)) /\ StrMethodExc(DoiArg(p)) # "none"
    THEN StrMethodExc(DoiArg(p))
    ELSE AuthorsExc(AuthorsArg(p))

\* mutant of IsSelected: doi in selected, without the guard on an empty doi
IsSelectedUnguarded(doi, sel) == doi \in sel

\* "selected": (doi in selected) if doi else False
IsSelected(doi, sel) == IF doi # <<>> THEN doi \in sel ELSE FALSE

\* the item the loop body appends for record p
Normalize(p, sel) ==
    LET doi == norm_doi(DoiArg(p).v)
    IN [doi |-> doi,
        title |-> Or(safe_get(p, "title", EmptyStr), EmptyStr),
        authors |-> authors_to_str(AuthorsArg(p)),
        venue |-> Or(safe_get(p, "venue", EmptyStr), EmptyStr),
        year |-> Or(safe_get(p, "year", EmptyStr), EmptyStr),
        url |-> Url(p),
        citationCount |-> safe_get(p, "citationCount", PyNone),
        publicationDate |-> Or(safe_get(p, "publicationDate", EmptyStr), EmptyStr),
        publicationTypes |-> Or(safe_get(p, "publicationTypes", PyNone), PyList(<<>>)),
        selected |-> IsSelected(doi, sel)]

----------------------------------------------------------------------------
(* The sort of main(): key (y(x), c(x), title.lower()), reverse=True *)

IsDigits(s) == s # <<>> /\ \A i \in 1..Len(s) : \E d \in 1..10 : DigitChars[d] = s[i]

RECURSIVE DigitsValue(_)
DigitsValue(s) ==
    IF s = <<>> THEN 0
    ELSE 10 * DigitsValue(SubSeq(s, 1, Len(s) - 1)) + (IndexIn(DigitChars, s[Len(s)]) - 1)

\* int(s) of a str parses; ParsesAsInt is false where int(s) raises ValueError
Unsigned(s) == IF StartsWith(s, <<"-">>) THEN Tail(s) ELSE s
ParsesAsInt(s) == IsDigits(Unsigned(Strip(s)))
ParseInt(s) ==
    IF StartsWith(Strip(s), <<"-">>)
    THEN 0 - DigitsValue(Unsigned(Strip(s)))
    ELSE DigitsValue(Strip(s))

\* try: return int(v or 0)  except: return 0
IntOrZero(v) ==
    LET a == Or(v, PyInt(0))
    IN CASE a.t = "int" -> a.v
         [] a.t = "str" -> IF ParsesAsInt(a.v) THEN ParseInt(a.v) ELSE 0
         [] OTHER -> 0

y(x) == IntOrZero(x.year)
c(x) == IntOrZero(x.citationCount)

\* (x.get("title") or "")
TitleArg(x) == Or(x.title, EmptyStr)

\* the key of the sort's lambda
SortKey(x) == <<y(x), c(x), Lower(TitleArg(x).v)>>

\* str < str: by code points, a proper prefix first
RECURSIVE StrLess(_, _)
StrLess(a, b) ==
    IF b = <<>> THEN FALSE
    ELSE IF a = <<>> THEN TRUE
    ELSE IF Head(a) = Head(b) THEN StrLess(Tail(a), Tail(b))
    ELSE Ord(Head(a)) < Ord(Head(b))

\* tuple < tuple
KeyLess(k1, k2) ==
    \/ k1[1] < k2[1]
    \/ k1[1] = k2[1] /\ k1[2] < k2[2]
    \/ k1[1] = k2[1] /\ k1[2] = k2[2] /\ StrLess(k1[3], k2[3])

RECURSIVE Reverse(_)
Reverse(s) == IF s = <<>> THEN <<>> ELSE Reverse(Tail(s)) \o <<Head(s)>>

\* x goes behind every element whose key is not greater: the sort is stable
RECURSIVE InsertAsc(_, _)
InsertAsc(s, x) ==
    IF s = <<>> THEN <<x>>
    ELSE IF KeyLess(SortKey(x), SortKey(Head(s))) THEN <<x>> \o s
    ELSE <<Head(s)>> \o InsertAsc(Tail(s), x)

RECURSIVE SortAsc(_)
SortAsc(s) ==
    IF s = <<>> THEN <<>>
    ELSE InsertAsc(SortAsc(SubSeq(s, 1, Len(s) - 1)), s[Len(s)])

\* mutant of SortItems: ascending sort, then reversed
SortItemsThenReverse(its) == Reverse(SortAsc(its))

\* list.sort(key=..., reverse=True): reverse, stable ascending sort, reverse
SortItems(its) == Reverse(SortAsc(Reverse(its)))

\* the exception items.sort raises: the key calls .lower() on every title
SortExc(its) ==
    IF \E i \in 1..Len(its) : StrMethodExc(TitleArg(its[i])) # "none"
    THEN "AttributeError"
    ELSE "none"

\* mutant of Document: counts.total counts the records fetched
DocumentCountingFetched(its) ==
    [updatedAt |-> "today",
     source |-> [name |-> "Semantic Scholar", via |-> "author"],
     counts |-> [total |-> Len(delivered)],
     items |-> its]

\* the dict main() dumps
Document(its) ==
    [updatedAt |-> "today",
     source |-> [name |-> "Semantic Scholar", via |-> "author"],
     counts |-> [total |-> Len(its)],
     items |-> its]

----------------------------------------------------------------------------
(* load_selected_dois *)

\* a line the loop does not skip
CountedLine(line) == Strip(line) # <<>> /\ ~StartsWith(Strip(line), <<"#">>)

load_selected_dois(file) ==
    IF ~file.exists THEN {}
    ELSE {norm_doi(Strip(file.lines[i])) :
            i \in {j \in 1..Len(file.lines) : CountedLine(file.lines[j])}}

----------------------------------------------------------------------------
(* Inputs: the raw records a provider listing is drawn from, and the       *)
(* contents of the selected-identifiers file.                              *)

AuthorDict(name) == PyDict([name |-> name])
AuthorObj(name) == PyObj([name |-> name])
Ids(doi) == PyDict([DOI |-> doi])

\* (2020, 5, "Zeta"), DOI 10.1/ABC, three author mappings, url from paperId
PaperZeta ==
    DictRecord([NoFields EXCEPT
        !.title = PyStr(<<"Z","e","t","a">>),
        !.year = PyInt(2020),
        !.citationCount = PyInt(5),
        !.externalIds = Ids(PyStr(<<"1","0",".","1","/","A","B","C">>)),
        !.authors = PyList(<<AuthorDict(PyStr(<<"A","."," ","S","m","i","t","h">>)),
                             AuthorDict(EmptyStr),
                             AuthorDict(PyStr(<<" ","B","."," ","L","e","e"," ">>))>>),
        !.url = EmptyStr,
        !.paperId = PyStr(<<"a","b","c","1","2","3">>),
        !.publicationTypes = PyList(<<PyStr(<<"R","e","v","i","e","w">>)>>)])

\* (2020, 5, "Alpha") as an attribute object: year a str, DOI a doi.org URL
PaperAlpha ==
    ObjRecord([NoFields EXCEPT
        !.title = PyStr(<<"A","l","p","h","a">>),
        !.year = PyStr(<<"2","0","2","0">>),
        !.citationCount = PyInt(5),
        !.externalIds = PyNone,
        !.external_ids = Ids(PyStr(<<"h","t","t","p","s",":","/","/","d","o","i",".",
                                     "o","r","g","/","1","0",".","1","/","x">>)),
        !.authors = PyList(<<PyStr(<<" ","C","."," ","W","u">>), PyNone,
                             AuthorObj(Absent), PyInt(4)>>),
        !.url = PyStr(<<"h","t","t","p","s",":","/","/","x",".","o","r","g","/","p">>),
        !.paper_id = PyInt(42)])

\* (2021, 1, "Mid") with no identifiers, authors or paperId
PaperMid ==
    DictRecord([NoFields EXCEPT
        !.title = PyStr(<<"M","i","d">>),
        !.year = PyInt(2021),
        !.citationCount = PyInt(1),
        !.externalIds = PyNone,
        !.authors = PyNone])

\* same sort key as PaperZeta once lowercased; its DOI normalizes to ""
PaperZetaLower ==
    DictRecord([NoFields EXCEPT
        !.title = PyStr(<<"Z","E","T","A">>),
        !.year = PyInt(2020),
        !.citationCount = PyStr(<<" ","5">>),
        !.externalIds = Ids(PyStr(<<"d","o","i",":">>)),
        !.authors = PyStr(<<"A","B">>),
        !.paper_id = PyInt(42)])

\* nothing usable: title and citationCount null, year unparsable, authors a number 0
PaperBare ==
    DictRecord([NoFields EXCEPT
        !.title = PyNone,
        !.year = PyStr(<<"n",".","d",".">>),
        !.citationCount = PyNone,
        !.externalIds = Ids(Absent),
        !.authors = PyInt(0)])

\* externalIds["DOI"] is a number
PaperDoiNumber ==
    DictRecord([NoFields EXCEPT
        !.title = PyStr(<<"M","i","d">>),
        !.externalIds = Ids(PyInt(12345))])

\* authors is a number, not a sequence
PaperAuthorsNumber ==
    DictRecord([NoFields EXCEPT
        !.title = PyStr(<<"M","i","d">>),
        !.authors = PyInt(3)])

\* an author mapping whose name is a number
PaperAuthorNameNumber ==
    DictRecord([NoFields EXCEPT
        !.title = PyStr(<<"M","i","d">>),
        !.authors = PyList(<<AuthorDict(PyInt(7))>>)])

\* title is a number
PaperTitleNumber ==
    DictRecord([NoFields EXCEPT
        !.title = PyInt(7),
        !.year = PyInt(2021)])

Corpus == <<PaperZeta, PaperAlpha, PaperMid, PaperZetaLower, PaperBare,
            NullRecord, DictRecord(NoFields),
            PaperDoiNumber, PaperAuthorsNumber, PaperAuthorNameNumber,
            PaperTitleNumber>>

NoFile == [exists |-> FALSE, lines |-> <<>>]

\* 10.1/ABC twice (a doi.org URL and a DOI: form), 10.1/x commented out, blank
\* lines, and a line that normalizes to the empty string
SelectedFile ==
    [exists |-> TRUE,
     lines |-> << <<"h","t","t","p","s",":","/","/","d","o","i",".","o","r","g","/",
                    "1","0",".","1","/","A","B","C">>,
                  <<" ","#","1","0",".","1","/","x">>,
                  <<>>,
                  <<" ","\t">>,
                  <<"d","o","i",":">>,
                  <<" ","D","O","I",":"," ","1","0",".","1","/","A","B","C"," ">> >>]

SelFiles == <<NoFile, SelectedFile>>

----------------------------------------------------------------------------
(* The run of main() *)

NoExc == [type |-> "none", origin |-> "none"]

\* what was at args.out before the run
PriorFile == [touched |-> FALSE, doc |-> Document(<<>>)]

\* exceptions a request to the provider can raise
ProviderExcs == {"TypeError", "ConnectionError"}

\* mutant of Caught: except Exception
CaughtAny(e) == TRUE

\* except TypeError: pass
Caught(e) == e = "TypeError"

Init ==
    /\ pc = "start"
    /\ limit \in 0..MaxLimit
    /\ listing = <<>>
    /\ limitIsTotal \in BOOLEAN
    /\ selFile \in 1..Len(SelFiles)
    /\ selected = {}
    /\ items = <<>>
    /\ pos = 0
    /\ requests = 0
    /\ delivered = <<>>
    /\ failures = <<>>
    /\ exc = NoExc
    /\ outFile = PriorFile
    /\ npc = "off" /\ nx = <<>> /\ ny = <<>> /\ nz = <<>>

\* selected = load_selected_dois(args.selected_dois)
LoadSelected ==
    /\ pc = "start"
    /\ selected' = load_selected_dois(SelFiles[selFile])
    /\ pc' = "call1"
    /\ UNCHANGED <<limit, listing, limitIsTotal, selFile, items, pos, requests,
                   delivered, failures, exc, outFile, normVars>>

\* mutant of LoopBody: the document is rewritten after every record
LoopBodyStreaming(i, r) ==
    LET p == Corpus[r]
    IN /\ delivered' = Append(delivered, i)
       /\ IF ~TruthyRecord(p)
          THEN UNCHANGED <<items, pc, exc>>
          ELSE IF NormalizeExc(p) # "none"
               THEN /\ pc' = "aborted"
                    /\ exc' = [type |-> NormalizeExc(p), origin |-> "record"]
                    /\ UNCHANGED items
               ELSE /\ items' = Append(items, Normalize(p, selected))
                    /\ UNCHANGED <<pc, exc>>
       /\ outFile' = [touched |-> TRUE, doc |-> Document(items')]

\* one pass of main's for loop over record r, found at listing position i
LoopBody(i, r) ==
    LET p == Corpus[r]
    IN /\ delivered' = Append(delivered, i)
       /\ outFile' = outFile
       /\ IF ~TruthyRecord(p)
          THEN UNCHANGED <<items, pc, exc>>
          ELSE IF NormalizeExc(p) # "none"
               THEN /\ pc' = "aborted"
                    /\ exc' = [type |-> NormalizeExc(p), origin |-> "record"]
                    /\ UNCHANGED items
               ELSE /\ items' = Append(items, Normalize(p, selected))
                    /\ UNCHANGED <<pc, exc>>

\* an exception raised inside the try of iter_author_papers
RaiseInTry(e) ==
    /\ failures' = Append(failures, [req |-> requests', exc |-> e])
    /\ IF Caught(e)
       THEN pc' = "call2" /\ UNCHANGED exc
       ELSE pc' = "aborted" /\ exc' = [type |-> e, origin |-> "provider"]

\* an exception raised after the try: nothing catches it
RaiseAfterTry(e) ==
    /\ failures' = Append(failures, [req |-> requests', exc |-> e])
    /\ pc' = "aborted"
    /\ exc' = [type |-> e, origin |-> "provider"]

\* client.get_author_papers(author_id, fields=FIELDS, limit=limit) returns
CallFirst ==
    /\ pc = "call1"
    /\ requests' = requests + 1
    /\ pos' = 0
    /\ pc' = "iter1"
    /\ UNCHANGED <<limit, listing, limitIsTotal, selFile, selected, items,
                   delivered, failures, exc, outFile, normVars>>

\* ... or raises
CallFirstRaises ==
    /\ pc = "call1"
    /\ requests' = requests + 1
    /\ \E e \in ProviderExcs : RaiseInTry(e)
    /\ UNCHANGED <<limit, listing, limitIsTotal, selFile, selected, items, pos,
                   delivered, outFile, normVars>>

\* yield from: the provider produces the next record and main consumes it
FirstYield ==
    /\ pc = "iter1"
    /\ Len(listing) < MaxRecords
    /\ limitIsTotal => pos < limit
    /\ pos' = pos + 1
    /\ \E r \in 1..Len(Corpus) :
          /\ listing' = Append(listing, r)
          /\ LoopBody(pos + 1, r)
    /\ UNCHANGED <<limit, limitIsTotal, selFile, selected, requests, failures,
                   normVars>>

\* yield from: the provider raises while the next record is fetched
FirstRaises ==
    /\ pc = "iter1"
    /\ UNCHANGED requests
    /\ \E e \in ProviderExcs : RaiseInTry(e)
    /\ UNCHANGED <<limit, listing, limitIsTotal, selFile, selected, items, pos,
                   delivered, outFile, normVars>>

\* yield from: the provider's sequence ends (the listing ends here, or the
\* provider has produced limit records and reads limit= as a total); return
FirstStop ==
    /\ pc = "iter1"
    /\ pc' = "fetched"
    /\ UNCHANGED <<limit, listing, limitIsTotal, selFile, selected, items, pos,
                   requests, delivered, failures, exc, outFile, normVars>>

\* papers = client.get_author_papers(author_id) returns
CallFallback ==
    /\ pc = "call2"
    /\ requests' = requests + 1
    /\ pos' = 0
    /\ pc' = "iter2"
    /\ UNCHANGED <<limit, listing, limitIsTotal, selFile, selected, items,
                   delivered, failures, exc, outFile, normVars>>

\* ... or raises
CallFallbackRaises ==
    /\ pc = "call2"
    /\ requests' = requests + 1
    /\ \E e \in ProviderExcs : RaiseAfterTry(e)
    /\ UNCHANGED <<limit, listing, limitIsTotal, selFile, selected, items, pos,
                   delivered, outFile, normVars>>

\* for i, p in enumerate(papers): if i >= limit: break; yield p
FallbackNext ==
    /\ pc = "iter2"
    /\ pos' = pos + 1
    /\ \E r \in 1..Len(Corpus) :
          /\ IF pos < Len(listing)
             THEN r = listing[pos + 1] /\ UNCHANGED listing
             ELSE Len(listing) < MaxRecords /\ listing' = Append(listing, r)
          /\ IF pos >= limit
             THEN /\ pc' = "fetched"
                  /\ UNCHANGED <<items, delivered, exc, outFile>>
             ELSE LoopBody(pos + 1, r)
    /\ UNCHANGED <<limit, limitIsTotal, selFile, selected, requests, failures,
                   normVars>>

\* enumerate(papers): the provider raises while the next record is fetched
FallbackRaises ==
    /\ pc = "iter2"
    /\ UNCHANGED requests
    /\ \E e \in ProviderExcs : RaiseAfterTry(e)
    /\ UNCHANGED <<limit, listing, limitIsTotal, selFile, selected, items, pos,
                   delivered, outFile, normVars>>

\* enumerate(papers) is exhausted: the listing ends here
FallbackStop ==
    /\ pc = "iter2"
    /\ pos = Len(listing)
    /\ pc' = "fetched"
    /\ UNCHANGED <<limit, listing, limitIsTotal, selFile, selected, items, pos,
                   requests, delivered, failures, exc, outFile, normVars>>

\* items.sort(key=lambda x: (y(x), c(x), title.lower()), reverse=True)
Sort ==
    /\ pc = "fetched"
    /\ IF SortExc(items) # "none"
       THEN /\ pc' = "aborted"
            /\ exc' = [type |-> SortExc(items), origin |-> "record"]
            /\ UNCHANGED items
       ELSE /\ items' = SortItems(items)
            /\ pc' = "sorted"
            /\ UNCHANGED exc
    /\ UNCHANGED <<limit, listing, limitIsTotal, selFile, selected, pos, requests,
                   delivered, failures, outFile, normVars>>

\* os.makedirs; open(args.out, "w"); json.dump(out, f)
Persist ==
    /\ pc = "sorted"
    /\ outFile' = [touched |-> TRUE, doc |-> Document(items)]
    /\ pc' = "written"
    /\ UNCHANGED <<limit, listing, limitIsTotal, selFile, selected, items, pos,
                   requests, delivered, failures, exc, normVars>>

Next ==
    \/ LoadSelected
    \/ CallFirst
    \/ CallFirstRaises
    \/ FirstYield
    \/ FirstRaises
    \/ FirstStop
    \/ CallFallback
    \/ CallFallbackRaises
    \/ FallbackNext
    \/ FallbackRaises
    \/ FallbackStop
    \/ Sort
    \/ Persist

Spec == Init /\ [][Next]_vars

----------------------------------------------------------------------------
(* norm_doi on its own, applied to an input once and then to its result *)

InitNorm ==
    /\ npc = "input"
    /\ nx \in NormInputs
    /\ ny = <<>>
    /\ nz = <<>>
    /\ pc = "off"
    /\ limit = 0
    /\ listing = <<>>
    /\ limitIsTotal = FALSE
    /\ selFile = 1
    /\ selected = {}
    /\ items = <<>>
    /\ pos = 0
    /\ requests = 0
    /\ delivered = <<>>
    /\ failures = <<>>
    /\ exc = NoExc
    /\ outFile = PriorFile

NormOnce ==
    /\ npc = "input"
    /\ ny' = norm_doi(nx)
    /\ npc' = "once"
    /\ UNCHANGED <<nx, nz, mainVars>>

NormTwice ==
    /\ npc = "once"
    /\ nz' = norm_doi(ny)
    /\ npc' = "twice"
    /\ UNCHANGED <<nx, ny, mainVars>>

NextNorm == NormOnce \/ NormTwice

SpecNorm == InitNorm /\ [][NextNorm]_vars

----------------------------------------------------------------------------
(* Properties *)

\* the raw record delivered k-th to main
DeliveredRecord(k) == Corpus[listing[delivered[k]]]

\* the items of the records delivered so far, in the order of delivery
RECURSIVE ItemsOf(_)
ItemsOf(ds) ==
    IF ds = <<>> THEN <<>>
    ELSE LET p == Corpus[listing[Head(ds)]]
         IN IF TruthyRecord(p)
            THEN <<Normalize(p, selected)>> \o ItemsOf(Tail(ds))
            ELSE ItemsOf(Tail(ds))

KeysOf(its) == [i \in 1..Len(its) |-> SortKey(its[i])]

\* the items of its whose key (ks lists the keys of its) is k, in their order
RECURSIVE WithKey(_, _, _)
WithKey(its, ks, k) ==
    IF its = <<>> THEN <<>>
    ELSE IF Head(ks) = k THEN <<Head(its)>> \o WithKey(Tail(its), Tail(ks), k)
    ELSE WithKey(Tail(its), Tail(ks), k)

\* C1: main consumes at most limit records from iter_author_papers, whichever
\* request form serves them.
C1_AtMostLimit == Len(delivered) <= limit

IsIdentifierLine(line) ==
    LET t == Strip(line) IN t # <<>> /\ t[1] # "#"

\* C4: an item of a written document is selected iff its doi is non-empty and
\* equals norm_doi(line) for some non-blank, non-comment line of the file; with
\* no file, no item is selected.
C4_SelectedIff ==
    outFile.touched =>
        LET file == SelFiles[selFile]
            its == outFile.doc.items
            ids == {norm_doi(file.lines[j]) :
                      j \in {k \in 1..Len(file.lines) : IsIdentifierLine(file.lines[k])}}
        IN \A i \in 1..Len(its) :
              its[i].selected <=>
                  /\ its[i].doi # <<>>
                  /\ file.exists
                  /\ its[i].doi \in ids

\* a written document with a selected item whose raw DOI differs from the file
\* line that selects it, and an unselected item with an empty doi although a
\* file line normalizes to the empty string
C4_Witness ==
    /\ pc = "written"
    /\ <<>> \in selected
    /\ \E i \in 1..Len(items) : items[i].doi = <<>> /\ ~items[i].selected
    /\ \E i \in 1..Len(items) :
          /\ items[i].selected
          /\ \A j \in 1..Len(SelFiles[selFile].lines) :
                SelFiles[selFile].lines[j] # items[i].doi

\* a value that is missing, null or not the spelling of an integer
NoInteger(v) ==
    \/ v.t \notin {"int", "str"}
    \/ v.t = "str" /\ ~ParsesAsInt(v.v)

\* C5: in a written document the keys (year, citationCount, lowercased title)
\* never increase from an item to the next, a missing, null or unparsable year or
\* citationCount counting as 0, and items with equal keys are in the order the
\* provider delivered them.
C5_SortedDescendingStable ==
    outFile.touched =>
        \A its \in {outFile.doc.items} : \A provided \in {ItemsOf(delivered)} :
        \A ks \in {KeysOf(its)} : \A pks \in {KeysOf(provided)} :
           /\ \A i \in 1..(Len(its) - 1) : ~KeyLess(ks[i], ks[i + 1])
           /\ \A i \in 1..Len(its) :
                 /\ NoInteger(its[i].year) => ks[i][1] = 0
                 /\ NoInteger(its[i].citationCount) => ks[i][2] = 0
                 /\ WithKey(its, ks, ks[i]) = WithKey(provided, pks, ks[i])

\* a written document of three items that the sort reordered: two different
\* items with equal keys, an item with a smaller key behind another, and an item
\* whose year is no integer
C5_Witness ==
    /\ outFile.touched
    /\ Len(outFile.doc.items) = 3
    /\ outFile.doc.items # ItemsOf(delivered)
    /\ \E i \in 1..2 :
          /\ SortKey(outFile.doc.items[i]) = SortKey(outFile.doc.items[i + 1])
          /\ outFile.doc.items[i] # outFile.doc.items[i + 1]
    /\ \E i \in 1..2 :
          KeyLess(SortKey(outFile.doc.items[i + 1]), SortKey(outFile.doc.items[i]))
    /\ \E i \in 1..3 : NoInteger(outFile.doc.items[i].year)

\* C6: norm_doi(norm_doi(x)) = norm_doi(x).
C6_Idempotent == npc = "twice" => nz = ny

\* what C7 describes: x trimmed, a leading doi.org URL prefix removed, then a
\* leading case-insensitive doi: removed, the rest untouched
LeadingPrefixesRemoved(x) ==
    LET s1 == Strip(x)
        s2 == IF StartsWith(s1, HttpsPrefix) THEN DropFirst(s1, Len(HttpsPrefix))
              ELSE IF StartsWith(s1, HttpPrefix) THEN DropFirst(s1, Len(HttpPrefix))
              ELSE s1
    IN IF StartsWith(Lower(s2), DoiScheme)
       THEN Strip(DropFirst(s2, Len(DoiScheme)))
       ELSE s2

\* C7: norm_doi removes only leading prefixes; a doi.org URL prefix text that is
\* not at the start of the string stays.
C7_OnlyLeadingPrefixes == npc # "input" => ny = LeadingPrefixesRemoved(nx)

\* C8: no anomaly of a raw record raises during normalization or sorting.
C8_RecordsNeverRaise == exc.origin # "record"

\* C9: in a written document counts.total is the number of items, which is the
\* number of non-null, non-empty records main consumed.
C9_TotalIsItemsIsRecords ==
    outFile.touched =>
        /\ outFile.doc.counts.total = Len(outFile.doc.items)
        /\ Len(outFile.doc.items)
              = Cardinality({k \in 1..Len(delivered) : TruthyRecord(DeliveredRecord(k))})

\* a written document for a run that skipped a null or empty record and kept
\* two others
C9_Witness ==
    /\ outFile.touched
    /\ Len(outFile.doc.items) = 2
    /\ \E k \in 1..Len(delivered) : ~TruthyRecord(DeliveredRecord(k))

\* C10: in a run that reaches the write step no record of the listing has been
\* made into an item twice.
C10_NoRecordTwice ==
    pc = "written" =>
        \A a, b \in 1..Len(delivered) :
            (a # b /\ TruthyRecord(DeliveredRecord(a))) => delivered[a] # delivered[b]

====
